---------------------------- MODULE Spec2Model ----------------------------
(***************************************************************************)
(* Model of the hotel-booking RAG service: the FastAPI process of          *)
(* src/src/api/main.py (lazy singletons, /ask, /health, query history),    *)
(* the VectorStore of src/src/rag/vector_store.py and the LLMInterface of  *)
(* src/src/rag/llm_interface.py.                                           *)
(*                                                                         *)
(* The endpoints are plain `def` handlers, which FastAPI runs on a thread  *)
(* pool: the workers of Threads interleave at the granularity of the       *)
(* reads and writes of the module globals and of the blocking calls.       *)
(* User is a caller that uses an LLMInterface object directly, the way     *)
(* llm_interface.main() does.                                              *)
(***************************************************************************)
EXTENDS Naturals, Sequences, FiniteSets

VARIABLES
    pc,             \* caller -> position in the code
    req,            \* caller -> the request / method being (or last) executed
    resp,           \* caller -> last outcome: "none" | "200" | "500" | "ok" | "raised"
    exc,            \* caller -> the exception that ended the last request, or "none"
    ret,            \* caller -> value returned by the last direct call
    sent,           \* caller -> HTTP requests posted by the current request
    loc,            \* caller -> local variables of the frames on its stack
    hs,             \* caller -> health_status["components"] and ["status"]
    analytics,      \* global analytics: FALSE is None
    vector_store,   \* global vector_store: 0 is None, else an index of vstores
    llm_instance,   \* global llm_instance: 0 is None, else an index of llms
    query_history,  \* global query_history
    vstores,        \* the VectorStore objects constructed in this process
    llms,           \* the LLMInterface objects constructed in this process
    ccc_calls,      \* invocations of create_chroma_collection in this process
    chroma,         \* the persisted collection "hotel_bookings" under chroma_db
    data_exists,    \* the processed CSV is on disk
    env_key,        \* MISTRAL_API_KEY is set and non-empty
    clock,          \* datetime.now(), as the number of entries logged by this process
    ask_limit,      \* bound on the clock (fixed by Init)
    restarts,       \* process restarts so far
    data,           \* VectorStore.data: the rows of the DataFrame, in order
    bsize,          \* the step of the batch loop of create_chroma_collection
    phase,          \* position of the build-and-query run over the rows
    prepared,       \* documents, metadata and document_ids of lines 77-78
    entries,        \* the entries of the collection, in insertion order
    bi,             \* the loop variable i of the batch loop
    qry,            \* the arguments of VectorStore.query
    results,        \* what collection.query returned
    hits,           \* formatted_results of VectorStore.query
    context         \* the text returned by retrieve_relevant_context

vars == <<pc, req, resp, exc, ret, sent, loc, hs, analytics, vector_store,
          llm_instance, query_history, vstores, llms, ccc_calls, chroma,
          data_exists, env_key, clock, ask_limit, restarts,
          data, bsize, phase, prepared, entries, bi, qry, results, hits, context>>

-----------------------------------------------------------------------------
(* Bounds of the model *)

MaxAsks == 2
HistAsks == 102
NumRows == 1500
MaxRestarts == 1
MaxClients == 2
MaxRecords == 3
MaxBatch == 2
MaxTopK == 3
MaxSeqLength == 8
MaxSources == 2
MaxChanged == 1

(* Program constants *)

HISTORY_LIMIT == 100
batch_size == 1000

Threads == {"w1", "w2"}
User == "user"
Callers == Threads \cup {User}

Queries == {"q1", "q2"}
Answers == {"a1", "a2"}
OneQuery == {"q1"}
OneAnswer == {"a1"}

\* outcome of requests.post in is_healthy: status 200, another status, or an exception
ProbeOutcomes == {"ok", "non200", "exception"}

Min(a, b) == IF a < b THEN a ELSE b

-----------------------------------------------------------------------------
(* Initial state: module import of api/main.py, lines 67-71 *)

\* no dict: the call has returned nothing yet
NoDict == [k \in {} |-> k]

NoLoc == [vs |-> 0, llm |-> 0, self |-> 0, exists |-> FALSE, docs |-> 0, i |-> 0,
          query |-> "none", answer |-> "none", tmp |-> <<>>,
          fresh |-> FALSE, logged |-> 0, probe |-> "none",
          ctx |-> [hits |-> 0, served |-> 0],
          ccc0 |-> [exists |-> FALSE, count |-> 0], prep |-> FALSE, adds |-> 0,
          geterr |-> FALSE, ccc_result |-> "none", post |-> "none",
          prompt |-> "none", posted |-> "none", response |-> NoDict, body |-> NoDict,
          stages |-> <<>>, metric |-> <<>>, failed |-> "none",
          caught |-> "none"]

NoHealth == [status |-> "ok", analytics |-> "unknown", vector_store |-> "unknown",
             llm |-> "unknown"]

NoCollection == [exists |-> FALSE, count |-> 0]

InitProcess ==
    /\ pc = [c \in Callers |-> "idle"]
    /\ req = [c \in Callers |-> "none"]
    /\ resp = [c \in Callers |-> "none"]
    /\ exc = [c \in Callers |-> "none"]
    /\ ret = [c \in Callers |-> "none"]
    /\ sent = [c \in Callers |-> 0]
    /\ loc = [c \in Callers |-> NoLoc]
    /\ hs = [c \in Callers |-> NoHealth]
    /\ analytics = FALSE
    /\ vector_store = 0
    /\ llm_instance = 0
    /\ query_history = <<>>
    /\ vstores = <<>>
    /\ llms = <<>>
    /\ ccc_calls = 0
    /\ chroma = NoCollection
    /\ clock = 0
    /\ restarts = 0

\* the service specifications leave the content of the rows aside
NoPipeline ==
    /\ data = <<>>
    /\ bsize = batch_size
    /\ phase = "none"
    /\ prepared = [documents |-> <<>>, metadata |-> <<>>, document_ids |-> <<>>]
    /\ entries = <<>>
    /\ bi = 0
    /\ qry = [text |-> <<>>, top_k |-> 0, i |-> 0]
    /\ results = [ids |-> <<>>, documents |-> <<>>, metadatas |-> <<>>,
                  distances |-> <<>>]
    /\ hits = <<>>
    /\ context = <<>>

Init ==
    /\ InitProcess
    /\ NoPipeline
    /\ data_exists \in BOOLEAN
    /\ env_key \in BOOLEAN
    /\ ask_limit = MaxAsks

InitHist ==
    /\ InitProcess
    /\ NoPipeline
    /\ data_exists = TRUE
    /\ env_key = TRUE
    /\ ask_limit = HistAsks

-----------------------------------------------------------------------------
(* Exceptions *)

\* An exception e leaving the frames of caller c.  In ask_question it is caught at
\* line 187 and becomes HTTP 500 (get_llm_interface re-raises at line 112 first);
\* in health_check it can only come from get_vector_store and is caught at line 222;
\* a direct caller sees it raised.
Raise(c, e) ==
    IF req[c] = "health"
    THEN /\ pc' = [pc EXCEPT ![c] = "h_llm"]
         /\ hs' = [hs EXCEPT ![c].vector_store = "unhealthy", ![c].status = "degraded"]
         /\ UNCHANGED <<resp, exc>>
    ELSE /\ pc' = [pc EXCEPT ![c] = "done"]
         /\ exc' = [exc EXCEPT ![c] = e]
         /\ resp' = [resp EXCEPT ![c] = IF c \in Threads THEN "500" ELSE "raised"]
         /\ UNCHANGED hs

Globals == <<analytics, vector_store, llm_instance, query_history>>
Heap == <<vstores, llms>>
Pipeline == <<data, bsize, phase, prepared, entries, bi, qry, results, hits, context>>
Env == <<data_exists, env_key, ask_limit, restarts, Pipeline>>

-----------------------------------------------------------------------------
(* get_vector_store, api/main.py lines 80-85 *)

\* VectorStore.__init__, vector_store.py lines 13-25: collection is None; built
\* records that create_chroma_collection has returned normally on the object
NewVectorStore == [collection |-> FALSE, built |-> FALSE]

\* line 82: if vector_store is None
GvsCheck(t) ==
    /\ pc[t] = "gvs_check"
    /\ pc' = [pc EXCEPT ![t] = IF vector_store = 0 THEN "gvs_construct" ELSE "gvs_return"]
    /\ UNCHANGED <<req, resp, exc, ret, sent, loc, hs, Globals, Heap, ccc_calls,
                   chroma, clock, Env>>

\* line 83: vector_store = VectorStore(data_path); __init__ (vector_store.py 13-25)
\* leaves collection None and raises FileNotFoundError when the file is missing
GvsConstruct(t) ==
    /\ pc[t] = "gvs_construct"
    /\ IF data_exists
       THEN /\ vstores' = Append(vstores, NewVectorStore)
            /\ vector_store' = Len(vstores) + 1
            /\ pc' = [pc EXCEPT ![t] = "ccc_list"]
            /\ UNCHANGED <<resp, exc, hs>>
       ELSE /\ Raise(t, "FileNotFoundError")
            /\ UNCHANGED <<vstores, vector_store>>
    /\ UNCHANGED <<req, ret, sent, loc, analytics, llm_instance, query_history, llms,
                   ccc_calls, chroma, clock, Env>>

\* line 85: return vector_store (the global, read again)
GvsReturn(t) ==
    /\ pc[t] = "gvs_return"
    /\ loc' = [loc EXCEPT ![t].vs = vector_store, ![t].self = 0, ![t].exists = FALSE,
                          ![t].docs = 0, ![t].i = 0, ![t].ccc0 = NoCollection,
                          ![t].prep = FALSE, ![t].adds = 0, ![t].geterr = FALSE,
                          ![t].ccc_result = "none"]
    /\ IF req[t] = "health"
       THEN /\ hs' = [hs EXCEPT ![t].vector_store = "healthy"]
            /\ pc' = [pc EXCEPT ![t] = "h_llm"]
       ELSE /\ pc' = [pc EXCEPT ![t] = "gl_key"]
            /\ UNCHANGED hs
    /\ UNCHANGED <<req, resp, exc, ret, sent, Globals, Heap, ccc_calls, chroma,
                   clock, Env>>

-----------------------------------------------------------------------------
(* VectorStore.create_chroma_collection, vector_store.py lines 55-106 *)

\* where the call returns to: get_vector_store line 85, or the direct caller
CccReturn(c) == IF c \in Threads THEN "gvs_return" ELSE "done"

\* line 84 binds self to the global vector_store; lines 57-66 open the client and
\* list the collections
CccList(t) ==
    /\ pc[t] = "ccc_list"
    /\ loc' = [loc EXCEPT ![t].self = IF t \in Threads THEN vector_store ELSE loc[t].vs,
                          ![t].exists = chroma.exists,
                          ![t].ccc0 = chroma,
                          ![t].prep = FALSE,
                          ![t].adds = 0,
                          ![t].geterr = FALSE,
                          ![t].ccc_result = "running"]
    /\ ccc_calls' = ccc_calls + 1
    /\ pc' = [pc EXCEPT ![t] = IF chroma.exists THEN "ccc_get" ELSE "ccc_prepare"]
    /\ UNCHANGED <<req, resp, exc, ret, sent, hs, Globals, Heap, chroma, clock, Env>>

\* CccGet without the early return of line 72
CccGet_noreturn(t) ==
    /\ pc[t] = "ccc_get"
    /\ chroma.exists
    /\ vstores' = [vstores EXCEPT ![loc[t].self].collection = TRUE]
    /\ pc' = [pc EXCEPT ![t] = "ccc_prepare"]
    /\ UNCHANGED <<req, resp, exc, ret, sent, loc, hs, Globals, llms, ccc_calls, chroma,
                   clock, Env>>

\* lines 69-72: get_collection succeeds, the existing collection is reused
CccGet(t) ==
    /\ pc[t] = "ccc_get"
    /\ chroma.exists
    /\ vstores' = [vstores EXCEPT ![loc[t].self].collection = TRUE,
                                  ![loc[t].self].built = TRUE]
    /\ loc' = [loc EXCEPT ![t].ccc_result = "attached"]
    /\ pc' = [pc EXCEPT ![t] = CccReturn(t)]
    /\ UNCHANGED <<req, resp, exc, ret, sent, hs, Globals, llms, ccc_calls, chroma,
                   clock, Env>>

\* lines 73-74: get_collection raises, the error is printed and the build goes on
CccGetFail(t) ==
    /\ pc[t] = "ccc_get"
    /\ loc' = [loc EXCEPT ![t].geterr = TRUE]
    /\ pc' = [pc EXCEPT ![t] = "ccc_prepare"]
    /\ UNCHANGED <<req, resp, exc, ret, sent, hs, Globals, Heap, ccc_calls,
                   chroma, clock, Env>>

\* lines 76-83: prepare_documents over the loaded rows, one document per row
CccPrepare(t) ==
    /\ pc[t] = "ccc_prepare"
    /\ loc' = [loc EXCEPT ![t].docs = NumRows, ![t].prep = TRUE]
    /\ pc' = [pc EXCEPT ![t] = "ccc_create"]
    /\ UNCHANGED <<req, resp, exc, ret, sent, hs, Globals, Heap, ccc_calls, chroma,
                   clock, Env>>

\* lines 86-90: create_collection makes an empty collection and self.collection
\* refers to it; chromadb raises when the name is already taken
CccCreate(t) ==
    /\ pc[t] = "ccc_create"
    /\ IF chroma.exists
       THEN /\ Raise(t, "CollectionAlreadyExists")
            /\ loc' = [loc EXCEPT ![t].ccc_result = "raised"]
            /\ UNCHANGED <<chroma, vstores>>
       ELSE /\ chroma' = [exists |-> TRUE, count |-> 0]
            /\ vstores' = [vstores EXCEPT ![loc[t].self].collection = TRUE]
            /\ loc' = [loc EXCEPT ![t].i = 0]
            /\ pc' = [pc EXCEPT ![t] = "ccc_add"]
            /\ UNCHANGED <<resp, exc, hs>>
    /\ UNCHANGED <<req, ret, sent, Globals, llms, ccc_calls, clock, Env>>

\* lines 94-100: one batch is embedded and inserted
CccAdd(t) ==
    /\ pc[t] = "ccc_add"
    /\ loc[t].i < loc[t].docs
    /\ LET end_idx == Min(loc[t].i + batch_size, loc[t].docs)
       IN  /\ chroma' = [chroma EXCEPT !.count = @ + (end_idx - loc[t].i)]
           /\ loc' = [loc EXCEPT ![t].i = @ + batch_size, ![t].adds = @ + 1]
    /\ UNCHANGED <<pc, req, resp, exc, ret, sent, hs, Globals, Heap, ccc_calls,
                   clock, Env>>

\* lines 96-100: the embedding provider or the insertion fails on this batch; nothing
\* in create_chroma_collection or get_vector_store catches it
CccAddFail(t) ==
    /\ pc[t] = "ccc_add"
    /\ loc[t].i < loc[t].docs
    /\ Raise(t, "EmbeddingError")
    /\ loc' = [loc EXCEPT ![t].ccc_result = "raised"]
    /\ UNCHANGED <<req, ret, sent, Globals, Heap, ccc_calls, chroma, clock, Env>>

\* lines 104-106: the loop is over, return self.collection
CccDone(t) ==
    /\ pc[t] = "ccc_add"
    /\ loc[t].i >= loc[t].docs
    /\ loc' = [loc EXCEPT ![t].ccc_result = "built"]
    /\ vstores' = [vstores EXCEPT ![loc[t].self].built = TRUE]
    /\ pc' = [pc EXCEPT ![t] = CccReturn(t)]
    /\ UNCHANGED <<req, resp, exc, ret, sent, hs, Globals, llms, ccc_calls, chroma,
                   clock, Env>>


-----------------------------------------------------------------------------
(* LLMInterface, llm_interface.py *)

\* __init__, lines 9-21: the key is read from the environment, is_loaded is False
NewClient(vs) == [vector_store |-> vs, api_key |-> env_key, is_loaded |-> FALSE]

\* is_healthy recording its result in is_loaded
is_healthy_sets_loaded(self, outcome) ==
    IF ~self.api_key
    THEN [result |-> FALSE, posts |-> 0, raised |-> FALSE,
          self |-> [self EXCEPT !.is_loaded = FALSE]]
    ELSE [result |-> (outcome = "ok"), posts |-> 1, raised |-> FALSE,
          self |-> [self EXCEPT !.is_loaded = (outcome = "ok")]]

\* is_healthy letting the exception of requests.post through
is_healthy_raises(self, outcome) ==
    IF ~self.api_key
    THEN [result |-> FALSE, posts |-> 0, raised |-> FALSE, self |-> self]
    ELSE [result |-> (outcome = "ok"), posts |-> 1, raised |-> (outcome = "exception"),
          self |-> self]

\* is_healthy, lines 111-133, on client self with the outcome of requests.post:
\* the value returned, the requests posted, whether it raised, and self afterwards
is_healthy(self, outcome) ==
    IF ~self.api_key
    THEN [result |-> FALSE, posts |-> 0, raised |-> FALSE, self |-> self]
    ELSE [result |-> (outcome = "ok"), posts |-> 1, raised |-> FALSE, self |-> self]

\* LmCheck without the validation of lines 27-28
LmCheck_novalidation(c) ==
    /\ pc[c] = "lm_check"
    /\ pc' = [pc EXCEPT ![c] = "lm_probe"]
    /\ UNCHANGED <<req, resp, exc, ret, sent, loc, hs, Globals, Heap, ccc_calls,
                   chroma, clock, Env>>

\* load_model lines 26-28: the key is validated before any request
LmCheck(c) ==
    /\ pc[c] = "lm_check"
    /\ IF ~llms[loc[c].llm].api_key
       THEN Raise(c, "ValueError: API key not provided")
       ELSE /\ pc' = [pc EXCEPT ![c] = "lm_probe"]
            /\ UNCHANGED <<resp, exc, hs>>
    /\ UNCHANGED <<req, ret, sent, loc, Globals, Heap, ccc_calls, chroma, clock, Env>>

\* load_model lines 30-34: self.is_healthy() is called and its value dropped, then
\* self.is_loaded = True
LmProbe(c, outcome) ==
    /\ pc[c] = "lm_probe"
    /\ LET r == is_healthy(llms[loc[c].llm], outcome)
       IN  /\ sent' = [sent EXCEPT ![c] = @ + r.posts]
           /\ loc' = [loc EXCEPT ![c].probe = IF r.posts = 0 THEN "unsent" ELSE outcome]
           /\ IF r.raised
              THEN /\ Raise(c, "ProbeError")
                   /\ llms' = [llms EXCEPT ![loc[c].llm] = r.self]
              ELSE /\ llms' = [llms EXCEPT ![loc[c].llm] = [r.self EXCEPT !.is_loaded = TRUE]]
                   /\ pc' = [pc EXCEPT ![c] = IF c \in Threads THEN "gl_return" ELSE "done"]
                   /\ resp' = [resp EXCEPT ![c] = IF c \in Threads THEN @ ELSE "ok"]
                   /\ UNCHANGED <<exc, hs>>
    /\ UNCHANGED <<req, ret, Globals, vstores, ccc_calls, chroma, clock, Env>>

\* query without the test of lines 109-110
query_unchecked(vs, top_k) == [raised |-> FALSE, hits |-> Min(top_k, chroma.count)]

\* VectorStore.query, vector_store.py lines 108-125: the hits of a top_k query, or
\* the error of an unset collection
query(vs, top_k) ==
    IF ~vs.collection
    THEN [raised |-> TRUE, hits |-> 0]
    ELSE [raised |-> FALSE, hits |-> Min(top_k, chroma.count)]

\* RagRetrieve with the prompt assembled before the store has been queried
RagRetrieve_unqueried(c) ==
    /\ pc[c] = "rag_retrieve"
    /\ pc' = [pc EXCEPT ![c] = "rag_prompt"]
    /\ UNCHANGED <<req, resp, exc, ret, sent, loc, hs, Globals, Heap, ccc_calls,
                   chroma, clock, Env>>

\* answer_with_rag line 86: retrieve_relevant_context, lines 65-82 (top_k = 3),
\* queries the vector store and returns the context
RagRetrieve(c) ==
    /\ pc[c] = "rag_retrieve"
    /\ LET self == llms[loc[c].llm]
       IN  IF self.vector_store = 0
           THEN /\ Raise(c, "ValueError: Vector store not initialized")
                /\ UNCHANGED loc
           ELSE LET r == query(vstores[self.vector_store], 3)
                IN  IF r.raised
                    THEN /\ Raise(c, "ValueError: ChromaDB collection not initialized")
                         /\ UNCHANGED loc
                    ELSE /\ loc' = [loc EXCEPT
                                    ![c].ctx = [hits |-> r.hits, served |-> chroma.count],
                                    ![c].stages = Append(@, "retrieval")]
                         /\ pc' = [pc EXCEPT ![c] = "rag_prompt"]
                         /\ UNCHANGED <<resp, exc, hs>>
    /\ UNCHANGED <<req, ret, sent, Globals, Heap, ccc_calls, chroma, clock, Env>>

\* answer_with_rag lines 88-100: the prompt is made of the context and the query
RagPrompt(c) ==
    /\ pc[c] = "rag_prompt"
    /\ loc' = [loc EXCEPT ![c].prompt = [context |-> loc[c].ctx, query |-> loc[c].query],
                           ![c].stages = Append(@, "assembly")]
    /\ pc' = [pc EXCEPT ![c] = "rag_generate"]
    /\ UNCHANGED <<req, resp, exc, ret, sent, hs, Globals, Heap, ccc_calls, chroma,
                   clock, Env>>

\* GenerateNotReady returning nothing in place of raising
GenerateNotReady_silent(c) ==
    /\ pc[c] = "rag_generate"
    /\ ~llms[loc[c].llm].is_loaded \/ ~llms[loc[c].llm].api_key
    /\ pc' = [pc EXCEPT ![c] = "done"]
    /\ resp' = [resp EXCEPT ![c] = IF c \in Threads THEN "200" ELSE "ok"]
    /\ UNCHANGED <<req, exc, ret, sent, loc, hs, Globals, Heap, ccc_calls, chroma,
                   clock, Env>>

\* generate_response lines 38-42: the client must be loaded and hold a key
GenerateNotReady(c) ==
    /\ pc[c] = "rag_generate"
    /\ LET self == llms[loc[c].llm]
       IN  /\ ~self.is_loaded \/ ~self.api_key
           /\ Raise(c, IF ~self.is_loaded THEN "ValueError: API connection not initialized"
                                          ELSE "ValueError: API key not provided")
    /\ UNCHANGED <<req, ret, sent, loc, Globals, Heap, ccc_calls, chroma, clock, Env>>

\* GenerateOk with answer_with_rag returning an empty context
GenerateOk_nocontext(c, a) ==
    /\ pc[c] = "rag_generate"
    /\ llms[loc[c].llm].is_loaded /\ llms[loc[c].llm].api_key
    /\ sent' = [sent EXCEPT ![c] = @ + 1]
    /\ loc' = [loc EXCEPT ![c].answer = a, ![c].post = "2xx",
                           ![c].stages = Append(@, "generation"),
                           ![c].posted = loc[c].prompt,
                           ![c].response = IF req[c] \in {"ask", "answer_with_rag"}
                                           THEN [query |-> loc[c].query,
                                                 context |-> [hits |-> 0, served |-> 0],
                                                 answer |-> a]
                                           ELSE @]
    /\ IF c \in Threads
       THEN /\ pc' = [pc EXCEPT ![c] = "log_append"]
            /\ UNCHANGED <<resp, ret>>
       ELSE /\ pc' = [pc EXCEPT ![c] = "done"]
            /\ resp' = [resp EXCEPT ![c] = "ok"]
            /\ ret' = [ret EXCEPT ![c] = a]
    /\ UNCHANGED <<req, exc, hs, Globals, Heap, ccc_calls, chroma, clock, Env>>

\* generate_response lines 57-61: the request is posted with the prompt as its
\* content and answered with text a; answer_with_rag returns the query, the context
\* and the answer (lines 105-109)
GenerateOk(c, a) ==
    /\ pc[c] = "rag_generate"
    /\ llms[loc[c].llm].is_loaded /\ llms[loc[c].llm].api_key
    /\ sent' = [sent EXCEPT ![c] = @ + 1]
    /\ loc' = [loc EXCEPT ![c].answer = a, ![c].post = "2xx",
                           ![c].stages = Append(@, "generation"),
                           ![c].posted = loc[c].prompt,
                           ![c].response = IF req[c] \in {"ask", "answer_with_rag"}
                                           THEN [query |-> loc[c].query,
                                                 context |-> loc[c].ctx, answer |-> a]
                                           ELSE @]
    /\ IF c \in Threads
       THEN /\ pc' = [pc EXCEPT ![c] = "log_append"]
            /\ UNCHANGED <<resp, ret>>
       ELSE /\ pc' = [pc EXCEPT ![c] = "done"]
            /\ resp' = [resp EXCEPT ![c] = "ok"]
            /\ ret' = [ret EXCEPT ![c] = a]
    /\ UNCHANGED <<req, exc, hs, Globals, Heap, ccc_calls, chroma, clock, Env>>

\* generate_response lines 58-61 on a response whose status is 3xx (a redirect
\* without Location, 300, 304): raise_for_status raises for 4xx and 5xx only, so
\* the body is parsed and its text a is returned
GenerateUnraised(c, a) ==
    /\ pc[c] = "rag_generate"
    /\ llms[loc[c].llm].is_loaded /\ llms[loc[c].llm].api_key
    /\ sent' = [sent EXCEPT ![c] = @ + 1]
    /\ loc' = [loc EXCEPT ![c].answer = a, ![c].post = "3xx",
                           ![c].stages = Append(@, "generation"),
                           ![c].posted = loc[c].prompt,
                           ![c].response = IF req[c] \in {"ask", "answer_with_rag"}
                                           THEN [query |-> loc[c].query,
                                                 context |-> loc[c].ctx, answer |-> a]
                                           ELSE @]
    /\ IF c \in Threads
       THEN /\ pc' = [pc EXCEPT ![c] = "log_append"]
            /\ UNCHANGED <<resp, ret>>
       ELSE /\ pc' = [pc EXCEPT ![c] = "done"]
            /\ resp' = [resp EXCEPT ![c] = "ok"]
            /\ ret' = [ret EXCEPT ![c] = a]
    /\ UNCHANGED <<req, exc, hs, Globals, Heap, ccc_calls, chroma, clock, Env>>

\* GenerateFail marking the client not ready when the request fails
GenerateFail_unready(c) ==
    /\ pc[c] = "rag_generate"
    /\ llms[loc[c].llm].is_loaded /\ llms[loc[c].llm].api_key
    /\ sent' = [sent EXCEPT ![c] = @ + 1]
    /\ llms' = [llms EXCEPT ![loc[c].llm].is_loaded = FALSE]
    /\ Raise(c, "ValueError: API request failed")
    /\ UNCHANGED <<req, ret, loc, Globals, vstores, ccc_calls, chroma, clock, Env>>

\* GenerateFail with the failure logged to the history before it is raised
GenerateFail_logged(c) ==
    /\ pc[c] = "rag_generate"
    /\ llms[loc[c].llm].is_loaded /\ llms[loc[c].llm].api_key
    /\ sent' = [sent EXCEPT ![c] = @ + 1]
    /\ pc' = [pc EXCEPT ![c] = "done"]
    /\ exc' = [exc EXCEPT ![c] = "ValueError: API request failed"]
    /\ resp' = [resp EXCEPT ![c] = IF c \in Threads THEN "500" ELSE "raised"]
    /\ query_history' = Append(query_history,
                               [query |-> loc[c].query, answer |-> "error",
                                timestamp |-> clock])
    /\ UNCHANGED <<req, ret, loc, hs, analytics, vector_store, llm_instance, Heap,
                   ccc_calls, chroma, clock, Env>>

\* generate_response lines 58-63: the post fails or the status is not 2xx
GenerateFail(c) ==
    /\ pc[c] = "rag_generate"
    /\ llms[loc[c].llm].is_loaded /\ llms[loc[c].llm].api_key
    /\ sent' = [sent EXCEPT ![c] = @ + 1]
    /\ Raise(c, "ValueError: API request failed")
    /\ UNCHANGED <<req, ret, loc, Globals, Heap, ccc_calls, chroma, clock, Env>>

-----------------------------------------------------------------------------
(* get_llm_interface, api/main.py lines 87-114 *)

\* line 90: if llm_instance is None; line 93 calls get_vector_store
GlCheck(t) ==
    /\ pc[t] = "gl_check"
    /\ pc' = [pc EXCEPT ![t] = IF llm_instance = 0 THEN "gvs_check" ELSE "gl_return"]
    /\ UNCHANGED <<req, resp, exc, ret, sent, loc, hs, Globals, Heap, ccc_calls,
                   chroma, clock, Env>>

\* lines 96-98: the key is read from the environment and must not be empty
GlKey(t) ==
    /\ pc[t] = "gl_key"
    /\ IF ~env_key
       THEN Raise(t, "ValueError: MISTRAL_API_KEY not found")
       ELSE /\ pc' = [pc EXCEPT ![t] = "gl_construct"]
            /\ UNCHANGED <<resp, exc, hs>>
    /\ UNCHANGED <<req, ret, sent, loc, Globals, Heap, ccc_calls, chroma, clock, Env>>

\* lines 101-104: llm_instance = LLMInterface(model_name, vector_store)
GlConstruct(t) ==
    /\ pc[t] = "gl_construct"
    /\ llms' = Append(llms, NewClient(loc[t].vs))
    /\ llm_instance' = Len(llms) + 1
    /\ pc' = [pc EXCEPT ![t] = "gl_load"]
    /\ UNCHANGED <<req, resp, exc, ret, sent, loc, hs, analytics, vector_store,
                   query_history, vstores, ccc_calls, chroma, clock, Env>>

\* line 107: llm_instance.load_model() binds self to the global llm_instance
GlLoad(t) ==
    /\ pc[t] = "gl_load"
    /\ loc' = [loc EXCEPT ![t].llm = llm_instance]
    /\ pc' = [pc EXCEPT ![t] = "lm_check"]
    /\ UNCHANGED <<req, resp, exc, ret, sent, hs, Globals, Heap, ccc_calls, chroma,
                   clock, Env>>

\* line 114: return llm_instance (the global, read again); line 174 calls
\* answer_with_rag on it
GlReturn(t) ==
    /\ pc[t] = "gl_return"
    /\ loc' = [loc EXCEPT ![t].llm = llm_instance, ![t].vs = 0, ![t].probe = "none"]
    /\ pc' = [pc EXCEPT ![t] = "rag_retrieve"]
    /\ UNCHANGED <<req, resp, exc, ret, sent, hs, Globals, Heap, ccc_calls, chroma,
                   clock, Env>>

-----------------------------------------------------------------------------
(* log_query, api/main.py lines 116-125 *)

\* query_history[:100] in place of query_history[-100:]
FirstN(h, n) == IF Len(h) > n THEN SubSeq(h, 1, n) ELSE h

\* query_history[-100:]
LastN(h, n) == IF Len(h) > n THEN SubSeq(h, Len(h) - n + 1, Len(h)) ELSE h

\* lines 118-122: the entry is appended; line 124 tests the length
LogAppend(t) ==
    /\ pc[t] = "log_append"
    /\ query_history' = Append(query_history,
                               [query |-> loc[t].query, answer |-> loc[t].answer,
                                timestamp |-> clock])
    /\ clock' = clock + 1
    /\ loc' = [loc EXCEPT ![t].logged = @ + 1, ![t].stages = Append(@, "append")]
    /\ pc' = [pc EXCEPT ![t] = "log_check"]
    /\ UNCHANGED <<req, resp, exc, ret, sent, hs, analytics, vector_store,
                   llm_instance, Heap, ccc_calls, chroma, Env>>

\* line 124: if len(query_history) > 100; when it is not, log_query returns and
\* ask_question answers 200 (lines 180-185)
LogCheck(t) ==
    /\ pc[t] = "log_check"
    /\ IF Len(query_history) > HISTORY_LIMIT
       THEN /\ pc' = [pc EXCEPT ![t] = "log_slice"]
            /\ UNCHANGED <<resp, loc>>
       ELSE /\ pc' = [pc EXCEPT ![t] = "done"]
            /\ resp' = [resp EXCEPT ![t] = "200"]
            /\ loc' = [loc EXCEPT ![t].body = [answer |-> loc[t].response.answer,
                                               processing_time |-> "seconds"]]
    /\ UNCHANGED <<req, exc, ret, sent, hs, Globals, Heap, ccc_calls, chroma,
                   clock, Env>>

\* line 125, right-hand side: query_history[-100:] builds a new list
LogSlice(t) ==
    /\ pc[t] = "log_slice"
    /\ loc' = [loc EXCEPT ![t].tmp = LastN(query_history, HISTORY_LIMIT)]
    /\ pc' = [pc EXCEPT ![t] = "log_store"]
    /\ UNCHANGED <<req, resp, exc, ret, sent, hs, Globals, Heap, ccc_calls, chroma,
                   clock, Env>>

\* line 125, the store to the global; ask_question answers 200 (lines 180-185)
LogStore(t) ==
    /\ pc[t] = "log_store"
    /\ query_history' = loc[t].tmp
    /\ loc' = [loc EXCEPT ![t].tmp = <<>>,
                           ![t].body = [answer |-> loc[t].response.answer,
                                        processing_time |-> "seconds"]]
    /\ pc' = [pc EXCEPT ![t] = "done"]
    /\ resp' = [resp EXCEPT ![t] = "200"]
    /\ UNCHANGED <<req, exc, ret, sent, hs, analytics, vector_store, llm_instance,
                   Heap, ccc_calls, chroma, clock, Env>>

-----------------------------------------------------------------------------
(* The endpoints, api/main.py *)

AsksInFlight == Cardinality({t \in Threads : req[t] = "ask" /\ pc[t] \notin {"idle", "done"}})

\* POST /ask, lines 168-173: the handler starts and calls get_llm_interface
StartAsk(t, q) ==
    /\ pc[t] = "idle"
    /\ clock + AsksInFlight < ask_limit
    /\ req' = [req EXCEPT ![t] = "ask"]
    /\ resp' = [resp EXCEPT ![t] = "none"]
    /\ exc' = [exc EXCEPT ![t] = "none"]
    /\ sent' = [sent EXCEPT ![t] = 0]
    /\ loc' = [loc EXCEPT ![t] = [NoLoc EXCEPT !.query = q,
                                               !.fresh = (~chroma.exists /\ ccc_calls = 0)]]
    /\ hs' = [hs EXCEPT ![t] = NoHealth]
    /\ pc' = [pc EXCEPT ![t] = "gl_check"]
    /\ UNCHANGED <<ret, Globals, Heap, ccc_calls, chroma, clock, Env>>

\* GET /health, lines 197-216: the status starts "ok"; get_analytics (lines 74-78)
\* constructs BookingAnalytics, which raises when the file is missing
StartHealth(t) ==
    /\ pc[t] = "idle"
    /\ req' = [req EXCEPT ![t] = "health"]
    /\ resp' = [resp EXCEPT ![t] = "none"]
    /\ exc' = [exc EXCEPT ![t] = "none"]
    /\ sent' = [sent EXCEPT ![t] = 0]
    /\ loc' = [loc EXCEPT ![t] = NoLoc]
    /\ IF analytics \/ data_exists
       THEN /\ analytics' = TRUE
            /\ hs' = [hs EXCEPT ![t] = [NoHealth EXCEPT !.analytics = "healthy"]]
       ELSE /\ UNCHANGED analytics
            /\ hs' = [hs EXCEPT ![t] = [NoHealth EXCEPT !.analytics = "unhealthy",
                                                        !.status = "degraded"]]
    /\ pc' = [pc EXCEPT ![t] = "gvs_check"]
    /\ UNCHANGED <<ret, vector_store, llm_instance, query_history, Heap, ccc_calls,
                   chroma, clock, Env>>

\* lines 227-237: the client, when there is one, is probed with is_healthy
HealthLlm(t, outcome) ==
    /\ pc[t] = "h_llm"
    /\ IF llm_instance # 0
       THEN LET r == is_healthy(llms[llm_instance], outcome)
            IN  /\ sent' = [sent EXCEPT ![t] = @ + r.posts]
                /\ llms' = [llms EXCEPT ![llm_instance] = r.self]
                /\ loc' = [loc EXCEPT ![t].probe = IF r.posts = 0 THEN "unsent"
                                                                   ELSE outcome]
                /\ IF r.raised
                   THEN /\ resp' = [resp EXCEPT ![t] = "500"]
                        /\ exc' = [exc EXCEPT ![t] = "ProbeError"]
                        /\ UNCHANGED hs
                   ELSE /\ resp' = [resp EXCEPT ![t] = "200"]
                        /\ UNCHANGED exc
                        /\ hs' = [hs EXCEPT ![t].llm = IF r.result THEN "healthy"
                                                                   ELSE "unhealthy",
                                            ![t].status = IF r.result THEN @ ELSE "degraded"]
       ELSE /\ hs' = [hs EXCEPT ![t].llm = "not_initialized"]
            /\ resp' = [resp EXCEPT ![t] = "200"]
            /\ UNCHANGED <<sent, llms, exc, loc>>
    /\ pc' = [pc EXCEPT ![t] = "done"]
    /\ UNCHANGED <<req, ret, Globals, vstores, ccc_calls, chroma, clock, Env>>

\* the metric names of lines 140-147
SupportedMetrics == {"revenue_trends", "cancellation_rate",
                     "geographical_distribution", "lead_time_distribution"}

\* request.metric: <<>> is None (the field is absent), <<m>> is the string m
Metrics == {<<>>} \cup {<<m>> : m \in SupportedMetrics \cup {"occupancy"}}

\* lines 138-147: the metric is None or one of the four names
IsValidMetric(m) == IF m = <<>> THEN TRUE ELSE m[1] \in SupportedMetrics

\* lines 162-166: except Exception catches whatever the try block raised,
\* HTTPException included, and raises HTTPException(500)
AnalyticsExcept(t, e, stage) ==
    /\ resp' = [resp EXCEPT ![t] = "500"]
    /\ exc' = [exc EXCEPT ![t] = "Error processing analytics"]
    /\ loc' = [loc EXCEPT ![t].failed = stage, ![t].caught = e]
    /\ pc' = [pc EXCEPT ![t] = "done"]

\* POST /analytics, lines 132-136: the handler starts and calls get_analytics
StartAnalytics(t, m) ==
    /\ pc[t] = "idle"
    /\ req' = [req EXCEPT ![t] = "analytics"]
    /\ resp' = [resp EXCEPT ![t] = "none"]
    /\ exc' = [exc EXCEPT ![t] = "none"]
    /\ sent' = [sent EXCEPT ![t] = 0]
    /\ loc' = [loc EXCEPT ![t] = [NoLoc EXCEPT !.metric = m]]
    /\ hs' = [hs EXCEPT ![t] = NoHealth]
    /\ pc' = [pc EXCEPT ![t] = "an_get"]
    /\ UNCHANGED <<ret, Globals, Heap, ccc_calls, chroma, clock, Env>>

\* get_analytics, lines 74-78: BookingAnalytics is constructed once; its
\* constructor raises when the file is missing
AnalyticsGet(t) ==
    /\ pc[t] = "an_get"
    /\ IF analytics \/ data_exists
       THEN /\ analytics' = TRUE
            /\ pc' = [pc EXCEPT ![t] = "an_metric"]
            /\ UNCHANGED <<resp, exc, loc>>
       ELSE /\ AnalyticsExcept(t, "FileNotFoundError", "get_analytics")
            /\ UNCHANGED analytics
    /\ UNCHANGED <<req, ret, sent, hs, vector_store, llm_instance, query_history, Heap,
                   ccc_calls, chroma, clock, Env>>

\* lines 138-160: the metric is absent or one of the four names and the
\* computation returns; the handler answers 200
AnalyticsCompute(t) ==
    /\ pc[t] = "an_metric"
    /\ IsValidMetric(loc[t].metric)
    /\ resp' = [resp EXCEPT ![t] = "200"]
    /\ pc' = [pc EXCEPT ![t] = "done"]
    /\ UNCHANGED <<req, exc, ret, sent, loc, hs, Globals, Heap, ccc_calls, chroma,
                   clock, Env>>

\* lines 138-147 with the computation raising (a column missing from the file)
AnalyticsComputeFail(t) ==
    /\ pc[t] = "an_metric"
    /\ IsValidMetric(loc[t].metric)
    /\ AnalyticsExcept(t, "KeyError", "computation")
    /\ UNCHANGED <<req, ret, sent, hs, Globals, Heap, ccc_calls, chroma, clock, Env>>

\* lines 148-153: any other metric raises HTTPException(400) inside the try block
AnalyticsInvalid(t) ==
    /\ pc[t] = "an_metric"
    /\ ~IsValidMetric(loc[t].metric)
    /\ AnalyticsExcept(t, "HTTPException(400): Invalid metric", "none")
    /\ UNCHANGED <<req, ret, sent, hs, Globals, Heap, ccc_calls, chroma, clock, Env>>

\* the response has been sent: the frames of the request are gone
Done(t) ==
    /\ pc[t] = "done"
    /\ pc' = [pc EXCEPT ![t] = "idle"]
    /\ req' = [req EXCEPT ![t] = "none"]
    /\ resp' = [resp EXCEPT ![t] = "none"]
    /\ exc' = [exc EXCEPT ![t] = "none"]
    /\ ret' = [ret EXCEPT ![t] = "none"]
    /\ sent' = [sent EXCEPT ![t] = 0]
    /\ loc' = [loc EXCEPT ![t] = NoLoc]
    /\ hs' = [hs EXCEPT ![t] = NoHealth]
    /\ UNCHANGED <<Globals, Heap, ccc_calls, chroma, clock, Env>>

\* the process is stopped and started again: the module globals are initialised
\* anew (lines 67-71), the persisted collection and the environment stay
Restart ==
    /\ restarts < MaxRestarts
    /\ \E t \in Threads : req[t] # "none"
    /\ restarts' = restarts + 1
    /\ pc' = [c \in Callers |-> "idle"]
    /\ req' = [c \in Callers |-> "none"]
    /\ resp' = [c \in Callers |-> "none"]
    /\ exc' = [c \in Callers |-> "none"]
    /\ ret' = [c \in Callers |-> "none"]
    /\ sent' = [c \in Callers |-> 0]
    /\ loc' = [c \in Callers |-> NoLoc]
    /\ hs' = [c \in Callers |-> NoHealth]
    /\ analytics' = FALSE
    /\ vector_store' = 0
    /\ llm_instance' = 0
    /\ query_history' = <<>>
    /\ vstores' = <<>>
    /\ llms' = <<>>
    /\ ccc_calls' = 0
    /\ clock' = 0
    /\ UNCHANGED <<chroma, data_exists, env_key, ask_limit, Pipeline>>

-----------------------------------------------------------------------------
(* A direct caller of the two classes: main.py create_vector_store (lines 67-75)   *)
(* and llm_interface.main (lines 149-166) construct the objects and call their    *)
(* methods without the API's singletons.                                          *)

UserStart(method) ==
    /\ pc[User] = "idle"
    /\ req' = [req EXCEPT ![User] = method]
    /\ resp' = [resp EXCEPT ![User] = "none"]
    /\ exc' = [exc EXCEPT ![User] = "none"]
    /\ ret' = [ret EXCEPT ![User] = "none"]
    /\ sent' = [sent EXCEPT ![User] = 0]

\* VectorStore(processed_data_path), vector_store.py lines 13-25
UserVectorStore ==
    /\ UserStart("VectorStore")
    /\ Len(vstores) < MaxClients
    /\ IF data_exists
       THEN /\ vstores' = Append(vstores, NewVectorStore)
            /\ loc' = [loc EXCEPT ![User].vs = Len(vstores) + 1]
            /\ pc' = [pc EXCEPT ![User] = "done"]
       ELSE /\ pc' = [pc EXCEPT ![User] = "done"]
            /\ UNCHANGED <<vstores, loc>>
    /\ UNCHANGED <<hs, Globals, llms, ccc_calls, chroma, clock, Env>>

\* store.create_chroma_collection(...), main.py line 72
UserBuild ==
    /\ UserStart("create_chroma_collection")
    /\ loc[User].vs # 0
    /\ ccc_calls < MaxClients
    /\ pc' = [pc EXCEPT ![User] = "ccc_list"]
    /\ UNCHANGED <<loc, hs, Globals, Heap, ccc_calls, chroma, clock, Env>>

\* LLMInterface(model_name, vector_store), llm_interface.py lines 9-21 and 152
UserClient ==
    /\ UserStart("LLMInterface")
    /\ Len(llms) < MaxClients
    /\ llms' = Append(llms, NewClient(loc[User].vs))
    /\ loc' = [loc EXCEPT ![User].llm = Len(llms) + 1]
    /\ pc' = [pc EXCEPT ![User] = "done"]
    /\ UNCHANGED <<hs, Globals, vstores, ccc_calls, chroma, clock, Env>>

\* llm.load_model(), llm_interface.py line 155
UserLoadModel ==
    /\ UserStart("load_model")
    /\ loc[User].llm # 0
    /\ loc' = [loc EXCEPT ![User].probe = "none"]
    /\ pc' = [pc EXCEPT ![User] = "lm_check"]
    /\ UNCHANGED <<hs, Globals, Heap, ccc_calls, chroma, clock, Env>>

\* llm.is_healthy(), llm_interface.py lines 111-133
UserIsHealthy(outcome) ==
    /\ pc[User] = "idle"
    /\ loc[User].llm # 0
    /\ LET r == is_healthy(llms[loc[User].llm], outcome)
       IN  /\ llms' = [llms EXCEPT ![loc[User].llm] = r.self]
           /\ sent' = [sent EXCEPT ![User] = r.posts]
           /\ IF r.raised
              THEN /\ resp' = [resp EXCEPT ![User] = "raised"]
                   /\ exc' = [exc EXCEPT ![User] = "ProbeError"]
                   /\ ret' = [ret EXCEPT ![User] = "none"]
              ELSE /\ resp' = [resp EXCEPT ![User] = "ok"]
                   /\ exc' = [exc EXCEPT ![User] = "none"]
                   /\ ret' = [ret EXCEPT ![User] = r.result]
           /\ loc' = [loc EXCEPT ![User].probe = IF r.posts = 0 THEN "unsent" ELSE outcome]
    /\ req' = [req EXCEPT ![User] = "is_healthy"]
    /\ pc' = [pc EXCEPT ![User] = "done"]
    /\ UNCHANGED <<hs, Globals, vstores, ccc_calls, chroma, clock, Env>>

\* llm.answer_with_rag(query), llm_interface.py line 166
UserAnswer(q) ==
    /\ UserStart("answer_with_rag")
    /\ loc[User].llm # 0
    /\ loc' = [loc EXCEPT ![User].query = q]
    /\ pc' = [pc EXCEPT ![User] = "rag_retrieve"]
    /\ UNCHANGED <<hs, Globals, Heap, ccc_calls, chroma, clock, Env>>

\* llm.generate_response(prompt), llm_interface.py lines 36-63
UserGenerate(q) ==
    /\ UserStart("generate_response")
    /\ loc[User].llm # 0
    /\ loc' = [loc EXCEPT ![User].query = q, ![User].prompt = q]
    /\ pc' = [pc EXCEPT ![User] = "rag_generate"]
    /\ UNCHANGED <<hs, Globals, Heap, ccc_calls, chroma, clock, Env>>

\* the call has returned to the direct caller, which keeps its two objects
UserDone ==
    /\ pc[User] = "done"
    /\ pc' = [pc EXCEPT ![User] = "idle"]
    /\ req' = [req EXCEPT ![User] = "none"]
    /\ resp' = [resp EXCEPT ![User] = "none"]
    /\ exc' = [exc EXCEPT ![User] = "none"]
    /\ ret' = [ret EXCEPT ![User] = "none"]
    /\ sent' = [sent EXCEPT ![User] = 0]
    /\ loc' = [loc EXCEPT ![User] = [NoLoc EXCEPT !.vs = loc[User].vs,
                                                  !.llm = loc[User].llm]]
    /\ UNCHANGED <<hs, Globals, Heap, ccc_calls, chroma, clock, Env>>

-----------------------------------------------------------------------------
(* Specifications *)

\* a step of caller c inside get_vector_store and create_chroma_collection
BuildStep(c) ==
    \/ GvsCheck(c) \/ GvsConstruct(c) \/ GvsReturn(c)
    \/ CccList(c) \/ CccGet(c) \/ CccGetFail(c) \/ CccPrepare(c) \/ CccCreate(c)
    \/ CccAdd(c) \/ CccAddFail(c) \/ CccDone(c)

\* a step of worker t inside get_llm_interface, answer_with_rag and log_query
AskStep(t) ==
    \/ GlCheck(t) \/ GlKey(t) \/ GlConstruct(t) \/ GlLoad(t) \/ GlReturn(t)
    \/ LmCheck(t) \/ \E o \in ProbeOutcomes : LmProbe(t, o)
    \/ RagRetrieve(t) \/ RagPrompt(t) \/ GenerateFail(t)
    \/ LogAppend(t) \/ LogCheck(t) \/ Done(t)

\* the service under concurrent /ask and /health requests
Next ==
    \E t \in Threads :
       \/ \E q \in OneQuery : StartAsk(t, q)
       \/ StartHealth(t)
       \/ BuildStep(t)
       \/ AskStep(t)
       \/ GenerateNotReady(t)
       \/ \E a \in OneAnswer : GenerateOk(t, a)
       \/ \E o \in ProbeOutcomes : HealthLlm(t, o)

Spec == Init /\ [][Next]_vars

\* the service with one request at a time, over restarts of the process
NextSeq ==
    \/ \E t \in {"w1"} :
          \/ \E q \in Queries : StartAsk(t, q)
          \/ StartHealth(t)
          \/ BuildStep(t)
          \/ AskStep(t)
          \/ \E a \in Answers : GenerateOk(t, a)
          \/ \E o \in ProbeOutcomes : HealthLlm(t, o)
    \/ Restart

SpecSeq == Init /\ [][NextSeq]_vars

\* a step of an /ask request in a deployment whose data file, key and index are
\* in order: the builds succeed
HistStep(t) ==
    \/ \E q \in OneQuery : StartAsk(t, q)
    \/ GvsCheck(t) \/ GvsConstruct(t) \/ GvsReturn(t)
    \/ CccList(t) \/ CccPrepare(t) \/ CccCreate(t) \/ CccAdd(t) \/ CccDone(t)
    \/ GlCheck(t) \/ GlKey(t) \/ GlConstruct(t) \/ GlLoad(t) \/ GlReturn(t)
    \/ LmCheck(t) \/ \E o \in ProbeOutcomes : LmProbe(t, o)
    \/ RagRetrieve(t) \/ RagPrompt(t) \/ GenerateFail(t)
    \/ \E a \in OneAnswer : GenerateOk(t, a)
    \/ LogAppend(t) \/ LogCheck(t) \/ LogSlice(t) \/ LogStore(t) \/ Done(t)

\* concurrent /ask requests until the history is past its capacity
NextHist == \E t \in Threads : HistStep(t) \/ CccGet(t) \/ GenerateNotReady(t)

SpecHist == InitHist /\ [][NextHist]_vars

\* /ask requests one after the other until the history is past its capacity
NextHistSeq == \E t \in {"w1"} : HistStep(t)

SpecHistSeq == InitHist /\ [][NextHistSeq]_vars

\* the two classes under a direct caller
NextClient ==
    \/ UserVectorStore \/ UserBuild \/ UserClient \/ UserLoadModel
    \/ \E o \in ProbeOutcomes : UserIsHealthy(o)
    \/ \E q \in OneQuery : UserAnswer(q) \/ UserGenerate(q)
    \/ \E c \in {User} :
          \/ CccList(c) \/ CccGet(c) \/ CccGetFail(c) \/ CccPrepare(c) \/ CccCreate(c)
          \/ CccAdd(c) \/ CccAddFail(c) \/ CccDone(c)
          \/ LmCheck(c) \/ \E o \in ProbeOutcomes : LmProbe(c, o)
          \/ RagRetrieve(c) \/ RagPrompt(c) \/ GenerateNotReady(c) \/ GenerateFail(c)
          \/ \E a \in Answers : GenerateOk(c, a)
          \/ \E a \in Answers : GenerateUnraised(c, a)
    \/ UserDone

SpecClient == Init /\ [][NextClient]_vars

\* concurrent /analytics requests
NextAnalytics ==
    \E t \in Threads :
       \/ \E m \in Metrics : StartAnalytics(t, m)
       \/ AnalyticsGet(t) \/ AnalyticsCompute(t) \/ AnalyticsComputeFail(t)
       \/ AnalyticsInvalid(t)
       \/ Done(t)

SpecAnalytics == Init /\ [][NextAnalytics]_vars

-----------------------------------------------------------------------------
(* The content of the index: prepare_documents, the batch loop, query and the  *)
(* context text, over rows of a few columns.  A text is a sequence of atoms:   *)
(* the characters "," " " ":" and the newline stand for themselves and every   *)
(* other atom is a run of characters without any of them.                      *)

\* the columns of the CSV, in order; agent is not among the keys of line 78
Columns == <<"country", "agent", "reservation_status">>

\* a missing value: pd.notna(value) is False (line 46)
NaN == <<"nan">>

\* the values a cell can hold; "Canceled " ends with a space (read_csv keeps it)
ColumnValues ==
    [country |-> {NaN, <<"PT">>},
     agent |-> {NaN, <<"9">>},
     reservation_status |-> {NaN, <<"Canceled", " ">>}]

ColumnNames == {Columns[k] : k \in 1..Len(Columns)}

\* the rows of the CSV: each holds a value in one column at least
Rows ==
    {r \in [ColumnNames -> UNION {ColumnValues[c] : c \in ColumnNames}] :
        /\ \A c \in ColumnNames : r[c] \in ColumnValues[c]
        /\ \E c \in ColumnNames : r[c] # NaN}

RECURSIVE SeqsUpTo(_, _)
\* the sequences over S of length at most n
SeqsUpTo(S, n) ==
    IF n = 0 THEN {<<>>}
    ELSE LET shorter == SeqsUpTo(S, n - 1)
         IN  shorter \cup {Append(q, x) : q \in {r \in shorter : Len(r) = n - 1}, x \in S}

\* pd.notna(value), line 46
notna(value) == value # NaN

RECURSIVE row_text(_, _)
\* lines 42-47 over the first k columns of row: doc_text += f"{col}: {value}, "
row_text(row, k) ==
    IF k = 0 THEN <<>>
    ELSE row_text(row, k - 1) \o
         (IF notna(row[Columns[k]])
          THEN <<Columns[k], ":", " ">> \o row[Columns[k]] \o <<",", " ">>
          ELSE <<>>)

RECURSIVE row_meta(_, _)
\* lines 43-48 over the first k columns of row: doc_meta[col] = value; the dict
\* keeps the order of insertion
row_meta(row, k) ==
    IF k = 0 THEN <<>>
    ELSE row_meta(row, k - 1) \o
         (IF notna(row[Columns[k]])
          THEN <<[key |-> Columns[k], value |-> row[Columns[k]]]>>
          ELSE <<>>)

RECURSIVE lstrip(_, _)
lstrip(text, chars) ==
    IF text # <<>> /\ Head(text) \in chars THEN lstrip(Tail(text), chars) ELSE text

RECURSIVE rstrip(_, _)
rstrip(text, chars) ==
    IF text # <<>> /\ text[Len(text)] \in chars
    THEN rstrip(SubSeq(text, 1, Len(text) - 1), chars)
    ELSE text

\* str.strip(chars): every leading and trailing character that is in chars goes
strip(text, chars) == rstrip(lstrip(text, chars), chars)

\* prepare_documents, lines 37-53
prepare_documents(df) ==
    [documents |-> [r \in 1..Len(df) |-> strip(row_text(df[r], Len(Columns)), {",", " "})],
     metadata |-> [r \in 1..Len(df) |-> row_meta(df[r], Len(Columns))]]

\* the ids numbered from 1
doc_id_from_one(i) == <<"doc_", i + 1>>

\* f"doc_{i}", line 78
doc_id(i) == <<"doc_", i>>

\* list[i:j] of Python, on a list indexed from 1
slice(list, i, j) == SubSeq(list, i + 1, j)

\* collection.add(documents, ids, metadatas), lines 96-100: the three lists are
\* matched by position
collection_add(coll, documents, ids, metadatas) ==
    coll \o [k \in 1..Len(documents) |->
                [id |-> ids[k], document |-> documents[k], metadata |-> metadatas[k]]]

\* the service is not running while the index is built and queried
Service == <<pc, req, resp, exc, ret, sent, loc, hs, Globals, Heap, ccc_calls, chroma,
             clock, data_exists, env_key, ask_limit, restarts>>

\* the rows are loaded (lines 22-23); lines 77-78 prepare the lists
IdxPrepare ==
    /\ phase = "prepare"
    /\ LET p == prepare_documents(data)
       IN  prepared' = [documents |-> p.documents, metadata |-> p.metadata,
                        document_ids |-> [k \in 1..Len(p.documents) |-> doc_id(k - 1)]]
    /\ phase' = "create"
    /\ UNCHANGED <<data, bsize, entries, bi, qry, results, hits, context>>
    /\ UNCHANGED Service

\* lines 86-90: a new, empty collection; the loop starts at i = 0
IdxCreate ==
    /\ phase = "create"
    /\ entries' = <<>>
    /\ bi' = 0
    /\ phase' = "add"
    /\ UNCHANGED <<data, bsize, prepared, qry, results, hits, context>>
    /\ UNCHANGED Service

\* the batch of line 95 ending one entry early
IdxAdd_short ==
    /\ phase = "add"
    /\ bi < Len(prepared.documents)
    /\ LET end_idx == Min(bi + bsize, Len(prepared.documents)) - 1
       IN  entries' = collection_add(entries,
                                     slice(prepared.documents, bi, end_idx),
                                     slice(prepared.document_ids, bi, end_idx),
                                     slice(prepared.metadata, bi, end_idx))
    /\ bi' = bi + bsize
    /\ UNCHANGED <<data, bsize, phase, prepared, qry, results, hits, context>>
    /\ UNCHANGED Service

\* lines 94-100, one pass of the loop: the batch [i, end_idx) is added
IdxAdd ==
    /\ phase = "add"
    /\ bi < Len(prepared.documents)
    /\ LET end_idx == Min(bi + bsize, Len(prepared.documents))
       IN  entries' = collection_add(entries,
                                     slice(prepared.documents, bi, end_idx),
                                     slice(prepared.document_ids, bi, end_idx),
                                     slice(prepared.metadata, bi, end_idx))
    /\ bi' = bi + bsize
    /\ UNCHANGED <<data, bsize, phase, prepared, qry, results, hits, context>>
    /\ UNCHANGED Service

\* line 94: the range is exhausted; lines 104-106 return the collection
IdxBuilt ==
    /\ phase = "add"
    /\ bi >= Len(prepared.documents)
    /\ phase' = "built"
    /\ UNCHANGED <<data, bsize, prepared, entries, bi, qry, results, hits, context>>
    /\ UNCHANGED Service

\* the embedding of a text: the model reads at most MaxSeqLength atoms of it
Embed(text) == SubSeq(text, 1, Min(Len(text), MaxSeqLength))

\* the distance of two texts: the positions at which their embeddings differ
Distance(a, b) ==
    LET At(e, p) == IF p <= Len(e) THEN e[p] ELSE "[PAD]"
    IN  Cardinality({p \in 1..MaxSeqLength : At(Embed(a), p) # At(Embed(b), p)})

\* collection.query(query_texts=[text], n_results=top_k), lines 112-115: the
\* answers the engine can give, each the positions of the top_k nearest entries by
\* ascending distance; the order among entries at the same distance is the engine's
Rankings(coll, text, top_k) ==
    LET m == Min(top_k, Len(coll))
        d(e) == Distance(text, coll[e].document)
    IN  {s \in [1..m -> 1..Len(coll)] :
            /\ \A a, b \in 1..m : a < b => s[a] # s[b] /\ d(s[a]) <= d(s[b])
            /\ \A e \in 1..Len(coll) :
                  (\A a \in 1..m : s[a] # e) => \A a \in 1..m : d(s[a]) <= d(e)}

\* the dictionary collection.query returns for the ranking s (its inner lists)
collection_query(coll, text, s) ==
    [ids |-> [r \in 1..Len(s) |-> coll[s[r]].id],
     documents |-> [r \in 1..Len(s) |-> coll[s[r]].document],
     metadatas |-> [r \in 1..Len(s) |-> coll[s[r]].metadata],
     distances |-> [r \in 1..Len(s) |-> Distance(text, coll[s[r]].document)]]

\* formatted_results with the metadata and score taken from the next rank
formatted_results_shifted(res) ==
    [r \in 1..Len(res.documents) |->
        [document |-> res.documents[r],
         metadata |-> res.metadatas[IF r < Len(res.documents) THEN r + 1 ELSE 1],
         score |-> res.distances[IF r < Len(res.documents) THEN r + 1 ELSE 1]]]

\* lines 117-125
formatted_results(res) ==
    [r \in 1..Len(res.documents) |->
        [document |-> res.documents[r], metadata |-> res.metadatas[r],
         score |-> res.distances[r]]]

\* VectorStore.query(text of record i, top_k), lines 108-125, on the built store
IdxQuery(i, top_k) ==
    /\ phase = "built"
    /\ i \in 1..Len(prepared.documents)
    /\ LET text == prepared.documents[i]
       IN  \E s \in Rankings(entries, text, top_k) :
              /\ qry' = [text |-> text, top_k |-> top_k, i |-> i]
              /\ results' = collection_query(entries, text, s)
              /\ hits' = formatted_results(collection_query(entries, text, s))
    /\ phase' = "queried"
    /\ UNCHANGED <<data, bsize, prepared, entries, bi, context>>
    /\ UNCHANGED Service

\* the keys of line 78
Whitelist ==
    {"adr", "lead_time", "arrival_date", "arrival_date_year", "arrival_date_month",
     "total_revenue", "country", "is_canceled", "reservation_status", "hotel",
     "stays_in_weekend_nights", "stays_in_week_nights", "total_nights"}

\* the first line of the context, line 73
ContextHeader == "Based on the hotel booking data, here are some relevant records:"

\* str(n) for the record numbers
Digits == <<"1", "2", "3", "4", "5", "6">>

RECURSIVE attribute_lines_all(_, _)
\* attribute_lines without the test of line 78
attribute_lines_all(meta, k) ==
    IF k = 0 THEN <<>>
    ELSE attribute_lines_all(meta, k - 1) \o
         (<<"-", " ", meta[k].key, ":", " ">> \o meta[k].value \o <<"\n">>)

RECURSIVE attribute_lines(_, _)
\* lines 77-79 over the first k items of the metadata: f"- {key}: {value}\n" for
\* the keys of the list
attribute_lines(meta, k) ==
    IF k = 0 THEN <<>>
    ELSE attribute_lines(meta, k - 1) \o
         (IF meta[k].key \in Whitelist
          THEN <<"-", " ", meta[k].key, ":", " ">> \o meta[k].value \o <<"\n">>
          ELSE <<>>)

RECURSIVE record_blocks_from_zero(_, _)
\* record_blocks numbering the records with i in place of i+1
record_blocks_from_zero(res, k) ==
    IF k = 0 THEN <<>>
    ELSE record_blocks_from_zero(res, k - 1) \o
         <<"Record", " ", IF k = 1 THEN "0" ELSE Digits[k - 1], ":", "\n">> \o
         attribute_lines(res[k].metadata, Len(res[k].metadata)) \o <<"\n">>

RECURSIVE record_blocks(_, _)
\* lines 75-80 over the first k results: f"Record {i+1}:\n", the attribute lines
\* and an empty line
record_blocks(res, k) ==
    IF k = 0 THEN <<>>
    ELSE record_blocks(res, k - 1) \o
         <<"Record", " ", Digits[k], ":", "\n">> \o
         attribute_lines(res[k].metadata, Len(res[k].metadata)) \o <<"\n">>

\* retrieve_relevant_context, lines 73-82, on the results of the query
IdxContext ==
    /\ phase = "queried"
    /\ context' = <<ContextHeader, "\n", "\n">> \o record_blocks(hits, Len(hits))
    /\ phase' = "assembled"
    /\ UNCHANGED <<data, bsize, prepared, entries, bi, qry, results, hits>>
    /\ UNCHANGED Service

\* a CSV of at most MaxRecords rows and a step of the batch loop
InitIndex ==
    /\ InitProcess
    /\ data_exists = TRUE
    /\ env_key = TRUE
    /\ ask_limit = MaxAsks
    /\ data \in SeqsUpTo(Rows, MaxRecords)
    /\ bsize \in 1..MaxBatch
    /\ phase = "prepare"
    /\ prepared = [documents |-> <<>>, metadata |-> <<>>, document_ids |-> <<>>]
    /\ entries = <<>>
    /\ bi = 0
    /\ qry = [text |-> <<>>, top_k |-> 0, i |-> 0]
    /\ results = [ids |-> <<>>, documents |-> <<>>, metadatas |-> <<>>,
                  distances |-> <<>>]
    /\ hits = <<>>
    /\ context = <<>>

\* a fresh build over the rows, then one query with the text of a record
NextIndex ==
    \/ IdxPrepare \/ IdxCreate \/ IdxAdd \/ IdxBuilt
    \/ \E i \in 1..MaxRecords, top_k \in 1..MaxTopK : IdxQuery(i, top_k)
    \/ IdxContext

SpecIndex == InitIndex /\ [][NextIndex]_vars

-----------------------------------------------------------------------------
(* A second build under the same name and path after the CSV has changed: a new  *)
(* process constructs a VectorStore over the changed file and calls              *)
(* create_chroma_collection, which finds the collection of the first build.      *)

\* the CSV is replaced by rows and a new VectorStore loads it (lines 22-23, 31)
IdxReload(rows) ==
    /\ phase = "built"
    /\ rows # data
    /\ data' = rows
    /\ phase' = "attach"
    /\ UNCHANGED <<bsize, prepared, entries, bi, qry, results, hits, context>>
    /\ UNCHANGED Service

\* IdxAttach building the collection anew from the rows loaded
IdxAttach_rebuild ==
    /\ phase = "attach"
    /\ LET p == prepare_documents(data)
       IN  entries' = collection_add(<<>>, p.documents,
                                     [k \in 1..Len(p.documents) |-> doc_id(k - 1)],
                                     p.metadata)
    /\ phase' = "reused"
    /\ UNCHANGED <<data, bsize, prepared, bi, qry, results, hits, context>>
    /\ UNCHANGED Service

\* lines 65-72: the name is listed, get_collection returns the collection and the
\* call returns it; the rows loaded are not read
IdxAttach ==
    /\ phase = "attach"
    /\ phase' = "reused"
    /\ UNCHANGED <<data, bsize, prepared, entries, bi, qry, results, hits, context>>
    /\ UNCHANGED Service

\* lines 73-90: get_collection raises, the documents are prepared from the rows
\* loaded and create_collection raises because the name is taken
IdxAttachFail ==
    /\ phase = "attach"
    /\ LET p == prepare_documents(data)
       IN  prepared' = [documents |-> p.documents, metadata |-> p.metadata,
                        document_ids |-> [k \in 1..Len(p.documents) |-> doc_id(k - 1)]]
    /\ phase' = "raised"
    /\ UNCHANGED <<data, bsize, entries, bi, qry, results, hits, context>>
    /\ UNCHANGED Service

\* VectorStore.query(text of row i of the changed CSV, top_k), lines 108-125, on
\* the store that attached
IdxQueryChanged(i, top_k) ==
    /\ phase = "reused"
    /\ i \in 1..Len(data)
    /\ LET text == prepare_documents(data).documents[i]
       IN  \E s \in Rankings(entries, text, top_k) :
              /\ qry' = [text |-> text, top_k |-> top_k, i |-> i]
              /\ results' = collection_query(entries, text, s)
              /\ hits' = formatted_results(collection_query(entries, text, s))
    /\ phase' = "stale_queried"
    /\ UNCHANGED <<data, bsize, prepared, entries, bi, context>>
    /\ UNCHANGED Service

\* the first CSV, of at most MaxSources rows
InitStale ==
    /\ InitProcess
    /\ data_exists = TRUE
    /\ env_key = TRUE
    /\ ask_limit = MaxAsks
    /\ data \in SeqsUpTo(Rows, MaxSources)
    /\ bsize \in 1..MaxBatch
    /\ phase = "prepare"
    /\ prepared = [documents |-> <<>>, metadata |-> <<>>, document_ids |-> <<>>]
    /\ entries = <<>>
    /\ bi = 0
    /\ qry = [text |-> <<>>, top_k |-> 0, i |-> 0]
    /\ results = [ids |-> <<>>, documents |-> <<>>, metadatas |-> <<>>,
                  distances |-> <<>>]
    /\ hits = <<>>
    /\ context = <<>>

\* a fresh build, a change of the CSV to at most MaxChanged rows, a second build
\* and one query
NextStale ==
    \/ IdxPrepare \/ IdxCreate \/ IdxAdd \/ IdxBuilt
    \/ \E rows \in SeqsUpTo(Rows, MaxChanged) : IdxReload(rows)
    \/ IdxAttach \/ IdxAttachFail
    \/ \E i \in 1..MaxChanged, top_k \in 1..MaxTopK : IdxQueryChanged(i, top_k)

SpecStale == InitStale /\ [][NextStale]_vars

-----------------------------------------------------------------------------
(* Properties *)

\* C1: under concurrent first accesses at most one VectorStore and at most one
\* LLMInterface are constructed in the process, and create_chroma_collection is
\* invoked at most once.
C1_SingleConstruction ==
    /\ Len(vstores) <= 1
    /\ Len(llms) <= 1
    /\ ccc_calls <= 1

InLogQuery(t) == pc[t] \in {"log_check", "log_slice", "log_store"}

\* the history holds the entries clock-Len .. clock-1, in the order they were logged
IsRecentWindow(h) == \A i \in 1..Len(h) : h[i].timestamp = clock - Len(h) + (i - 1)

\* C2: under concurrent asks the appends are serialized: whenever no log_query is
\* in progress, every entry logged so far is in the history except the oldest ones
\* evicted by the capacity, none is lost or duplicated, and past 100 logged
\* entries the history holds exactly 100.
C2_SerializedAppends ==
    (\A t \in Threads : ~InLogQuery(t)) =>
        /\ Len(query_history) = Min(clock, HISTORY_LIMIT)
        /\ IsRecentWindow(query_history)

\* C3: after any sequence of successful asks the history holds at most 100
\* entries and is exactly the most recent min(n, 100) entries in insertion order;
\* after 101 asks the first entry is gone and the 2nd to 101st are there in order.
C3_BoundedFifo ==
    pc["w1"] \in {"idle", "done"} =>
        /\ Len(query_history) <= HISTORY_LIMIT
        /\ Len(query_history) = Min(clock, HISTORY_LIMIT)
        /\ \A i \in 1..Len(query_history) :
              /\ query_history[i].timestamp = clock - Len(query_history) + (i - 1)
              /\ query_history[i].query \in OneQuery
              /\ query_history[i].answer \in OneAnswer
        /\ (clock = HISTORY_LIMIT + 1 =>
               /\ \A i \in 1..Len(query_history) : query_history[i].timestamp # 0
               /\ query_history[1].timestamp = 1
               /\ query_history[HISTORY_LIMIT].timestamp = HISTORY_LIMIT)

\* C3 witness: 101 asks have been answered and the history holds the 2nd to 101st
C3_Witness ==
    /\ pc["w1"] = "done" /\ resp["w1"] = "200"
    /\ clock = HISTORY_LIMIT + 1
    /\ Len(query_history) = HISTORY_LIMIT
    /\ query_history[1].timestamp = 1

\* a call of create_chroma_collection by c has ended (returned or raised)
CccEnded(c) == loc[c].ccc_result \in {"attached", "built", "raised"}

C5_ReadyOnlyAfterProbe ==
    \A c \in Callers :
        (pc[c] = "done" /\ req[c] = "load_model"
            /\ loc[c].probe \in {"non200", "exception"}) =>
            /\ ~llms[loc[c].llm].is_loaded
            /\ resp[c] = "raised"

\* C6: a call of is_healthy, in any client state and with any probe outcome,
\* returns a boolean without raising, changes no field of any client (nor the
\* vector stores, the globals or the persisted collection), and returns false
\* when the probe failed or the credential is empty.
C6_HealthyIsPure ==
    [][(pc[User] = "idle" /\ req'[User] = "is_healthy") =>
          /\ llms' = llms
          /\ vstores' = vstores
          /\ UNCHANGED <<Globals, chroma>>
          /\ resp'[User] = "ok"
          /\ exc'[User] = "none"
          /\ ret'[User] \in BOOLEAN
          /\ (loc'[User].probe # "ok" => ret'[User] = FALSE)
          /\ (~llms[loc[User].llm].api_key => ret'[User] = FALSE)
          /\ (ret'[User] = TRUE => sent'[User] = 1)]_vars

\* C6 witness: is_healthy has returned false on a Ready client whose probe threw
C6_Witness ==
    /\ pc[User] = "done" /\ req[User] = "is_healthy"
    /\ loc[User].probe = "exception"
    /\ ret[User] = FALSE
    /\ llms[loc[User].llm].is_loaded

\* the direct caller's client holds an empty credential
EmptyCredential == loc[User].llm # 0 /\ ~llms[loc[User].llm].api_key

\* C7: with an empty credential load_model fails with the configuration error,
\* posts nothing and leaves the client not Ready; is_healthy on that client
\* returns false without raising and posts nothing.
C7_EmptyCredential ==
    (pc[User] = "done" /\ EmptyCredential) =>
        /\ ~llms[loc[User].llm].is_loaded
        /\ (req[User] = "load_model" =>
               /\ resp[User] = "raised"
               /\ exc[User] = "ValueError: API key not provided"
               /\ sent[User] = 0
               /\ loc[User].probe = "none")
        /\ (req[User] = "is_healthy" =>
               /\ resp[User] = "ok"
               /\ ret[User] = FALSE
               /\ sent[User] = 0)

\* C7 witness: load_model has failed on a client with an empty credential
C7_Witness ==
    /\ pc[User] = "done" /\ req[User] = "load_model"
    /\ EmptyCredential
    /\ resp[User] = "raised"

NotReadyErrors == {"ValueError: Vector store not initialized",
                   "ValueError: ChromaDB collection not initialized",
                   "ValueError: API connection not initialized"}

\* an /ask of worker t that started before any build of the index has ended
FreshAskEnded(t) == pc[t] = "done" /\ req[t] = "ask" /\ loc[t].fresh

\* C8 as claimed, without the kind of the error: an ask invoked before any build
\* fails and leaves the history as it was.
C8_FreshAskFails ==
    \A t \in Threads :
        FreshAskEnded(t) =>
            /\ resp[t] = "500"
            /\ loc[t].logged = 0
            /\ query_history = <<>>

\* C8 as amended: an ask invoked before any build builds the index itself; it
\* never ends with a not-ready error; when a stage fails it answers 500 and the
\* history is as before the ask (empty), and when every stage succeeds it
\* answers 200 after a build and the history is its one entry.
C8_FreshAskBuilds ==
    \A t \in Threads :
        FreshAskEnded(t) =>
            /\ exc[t] \notin NotReadyErrors
            /\ resp[t] \in {"200", "500"}
            /\ (resp[t] = "500" =>
                   /\ exc[t] # "none"
                   /\ loc[t].logged = 0
                   /\ query_history = <<>>)
            /\ (resp[t] = "200" =>
                   /\ exc[t] = "none"
                   /\ ccc_calls >= 1 /\ chroma.exists
                   /\ loc[t].logged = 1
                   /\ query_history = <<[query |-> loc[t].query,
                                         answer |-> loc[t].answer,
                                         timestamp |-> 0]>>
                   /\ loc[t].answer \in Answers)

\* C8 witness: a first ask has failed in the build and the history is empty
C8_Witness ==
    /\ FreshAskEnded("w1")
    /\ resp["w1"] = "500"
    /\ exc["w1"] = "EmbeddingError"
    /\ query_history = <<>>

\* C9: with one request at a time, every get_vector_store that returns yields a
\* VectorStore whose create_chroma_collection completed (collection set), and
\* every get_llm_interface that returns yields a Ready client: after a failed
\* initialization the next access initializes again.
C9_NoHalfInitialised ==
    \A t \in Threads :
        /\ (pc[t] = "gl_key" =>
               /\ vstores[loc[t].vs].collection
               /\ vstores[loc[t].vs].built)
        /\ ((pc[t] = "h_llm" /\ hs[t].vector_store = "healthy") =>
               /\ vstores[loc[t].vs].collection
               /\ vstores[loc[t].vs].built)
        /\ (pc[t] = "rag_retrieve" => llms[loc[t].llm].is_loaded)

\* C10: with one request at a time, no query is served from a collection that
\* holds fewer entries than there are records.
C10_NoPartialCollection ==
    \A t \in Threads :
        pc[t] = "rag_generate" => loc[t].ctx.served = NumRows

\* a generate_response call of the direct caller has ended on a loaded client
GenerateEnded ==
    /\ pc[User] = "done"
    /\ req[User] = "generate_response"
    /\ llms[loc[User].llm].is_loaded
    /\ llms[loc[User].llm].api_key

\* C11: a generate_response call on a Ready client sends exactly one request; when
\* the request fails (a transport error or a status that is not 2xx) the call ends
\* with the generation error, without a further request and without an answer
C11_SingleAttempt ==
    GenerateEnded =>
        /\ sent[User] = 1
        /\ (loc[User].post # "2xx") =>
               /\ resp[User] = "raised"
               /\ exc[User] = "ValueError: API request failed"
               /\ ret[User] = "none"

\* C12: generate_response on a client that is not loaded (load_model never returned
\* normally on it) fails with the error "API connection not initialized" and sends
\* no request
C12_NotReadyRejected ==
    (/\ pc[User] = "done"
     /\ req[User] = "generate_response"
     /\ ~llms[loc[User].llm].is_loaded) =>
        /\ resp[User] = "raised"
        /\ exc[User] = "ValueError: API connection not initialized"
        /\ sent[User] = 0
        /\ ret[User] = "none"

\* generate_response was refused on a client that holds a key and was never loaded
C12_Witness ==
    /\ pc[User] = "done"
    /\ req[User] = "generate_response"
    /\ llms[loc[User].llm].api_key
    /\ ~llms[loc[User].llm].is_loaded
    /\ exc[User] = "ValueError: API connection not initialized"

\* C13: retrieval through a VectorStore whose collection is unset fails with the
\* error "ChromaDB collection not initialized" and yields no hits, and retrieval on
\* a client without a vector store fails with "Vector store not initialized"; in
\* both cases nothing is sent to the generation API
C13_UninitialisedQueryFails ==
    (pc[User] = "done" /\ req[User] = "answer_with_rag") =>
        LET self == llms[loc[User].llm]
        IN  /\ (self.vector_store = 0) =>
                   /\ resp[User] = "raised"
                   /\ exc[User] = "ValueError: Vector store not initialized"
                   /\ loc[User].ctx.hits = 0
                   /\ sent[User] = 0
            /\ (self.vector_store # 0 /\ ~vstores[self.vector_store].collection) =>
                   /\ resp[User] = "raised"
                   /\ exc[User] = "ValueError: ChromaDB collection not initialized"
                   /\ loc[User].ctx.hits = 0
                   /\ sent[User] = 0

\* answer_with_rag has failed in the query of a store that was never built, while a
\* collection built by another store object exists
C13_Witness ==
    /\ pc[User] = "done"
    /\ req[User] = "answer_with_rag"
    /\ llms[loc[User].llm].vector_store # 0
    /\ ~vstores[llms[loc[User].llm].vector_store].collection
    /\ chroma.exists
    /\ exc[User] = "ValueError: ChromaDB collection not initialized"

\* the document text of the record at position j (from 1) of the rows
RecordText(j) == strip(row_text(data[j], Len(Columns)), {",", " "})

\* C14 as stated: after the build, the query with the exact document text of
\* record i returns the entry doc_i at rank 0, identical records included
C14_ExactTextTopHit ==
    (phase = "queried") => results.ids[1] = <<"doc_", qry.i - 1>>

\* C14, amended: the rank-0 hit of that query is at distance zero: it is the entry
\* doc_j of a record j whose document text has the embedding of the text of record
\* i, with the text of record j as its document; it is doc_i when no other record
\* has a text with that embedding
C14_TopHitAtDistanceZero ==
    (phase = "queried") =>
        /\ hits[1].score = 0
        /\ \E j \in 1..Len(data) :
              /\ results.ids[1] = <<"doc_", j - 1>>
              /\ hits[1].document = RecordText(j)
              /\ Embed(RecordText(j)) = Embed(qry.text)
        /\ (\A j \in 1..Len(data) :
               j # qry.i => Embed(RecordText(j)) # Embed(RecordText(qry.i)))
           => results.ids[1] = <<"doc_", qry.i - 1>>

\* the text of the third of three records, which differs from the texts of the two
\* before it, was queried and came back as doc_2
C14_Witness ==
    /\ phase = "queried"
    /\ Len(data) = 3
    /\ qry.i = 3
    /\ Embed(RecordText(1)) # Embed(RecordText(3))
    /\ Embed(RecordText(2)) # Embed(RecordText(3))
    /\ results.ids[1] = <<"doc_", 2>>
    /\ hits[1].document = qry.text

\* C15: the hits of a query are in non-decreasing distance order with hits at the
\* same distance in insertion order (the earlier DocumentID first), which fixes the
\* result for an index and a query; each hit pairs the document of an entry with
\* that entry's own metadata and distance
C15_RankOrder ==
    (phase = "queried") =>
        /\ \A a, b \in 1..Len(hits) :
              a < b =>
                 /\ hits[a].score <= hits[b].score
                 /\ (hits[a].score = hits[b].score) => results.ids[a][2] < results.ids[b][2]
        /\ \A r \in 1..Len(hits) :
              \E e \in 1..Len(entries) :
                 /\ entries[e].id = results.ids[r]
                 /\ hits[r].document = entries[e].document
                 /\ hits[r].metadata = entries[e].metadata
                 /\ hits[r].score = Distance(qry.text, entries[e].document)

RECURSIVE SplitLines(_)
\* the lines of a text, each without its newline
SplitLines(text) ==
    IF text = <<>> THEN <<>>
    ELSE IF \E p \in 1..Len(text) : text[p] = "\n"
         THEN LET p == CHOOSE q \in 1..Len(text) :
                          text[q] = "\n" /\ \A r \in 1..(q - 1) : text[r] # "\n"
              IN  <<SubSeq(text, 1, p - 1)>> \o SplitLines(SubSeq(text, p + 1, Len(text)))
         ELSE <<text>>

\* a line of the form "- key: value"
IsAttributeLine(line) ==
    Len(line) >= 5 /\ line[1] = "-" /\ line[2] = " " /\ line[4] = ":" /\ line[5] = " "

\* a line of the form "Record n:"
IsRecordLine(line) ==
    Len(line) = 4 /\ line[1] = "Record" /\ line[2] = " " /\ line[4] = ":"

\* C16: every attribute line of the context text names a key of the whitelist,
\* whatever keys the metadata of the hits hold
C16_OnlyWhitelistedKeys ==
    (phase = "assembled") =>
        LET lines == SplitLines(context)
        IN  \A l \in 1..Len(lines) :
               IsAttributeLine(lines[l]) =>
                  lines[l][3] \in {"adr", "lead_time", "arrival_date", "arrival_date_year",
                                   "arrival_date_month", "total_revenue", "country",
                                   "is_canceled", "reservation_status", "hotel",
                                   "stays_in_weekend_nights", "stays_in_week_nights",
                                   "total_nights"}

\* a context was assembled from a hit whose metadata hold agent next to country
C16_Witness ==
    /\ phase = "assembled"
    /\ \E r \in 1..Len(hits) :
          /\ \E k \in 1..Len(hits[r].metadata) : hits[r].metadata[k].key = "agent"
          /\ \E k \in 1..Len(hits[r].metadata) : hits[r].metadata[k].key = "country"
    /\ \E l \in 1..Len(SplitLines(context)) : IsAttributeLine(SplitLines(context)[l])

RECURSIVE ParseBlocks(_, _)
\* the record blocks read back from the first k lines: the number of each block
\* and its attributes in order
ParseBlocks(lines, k) ==
    IF k = 0 THEN <<>>
    ELSE LET before == ParseBlocks(lines, k - 1)
             line == lines[k]
         IN  IF IsRecordLine(line)
             THEN Append(before, [number |-> line[3], attrs |-> <<>>])
             ELSE IF IsAttributeLine(line) /\ before # <<>>
                  THEN [before EXCEPT ![Len(before)].attrs =
                           Append(@, [key |-> line[3],
                                      value |-> SubSeq(line, 6, Len(line))])]
                  ELSE before

\* C17: the context is a numbered list with one block per hit, in the order of
\* the hits: block n is "Record n" and holds the whitelisted attributes of the hit
\* at rank n-1, in the order of its metadata
C17_BlocksFollowHits ==
    (phase = "assembled") =>
        LET lines == SplitLines(context)
            blocks == ParseBlocks(lines, Len(lines))
            Listed(m) == m.key \in Whitelist
        IN  /\ Len(blocks) = Len(hits)
            /\ \A n \in 1..Len(hits) :
                  /\ blocks[n].number = <<"1", "2", "3", "4", "5", "6">>[n]
                  /\ blocks[n].attrs = SelectSeq(hits[n].metadata, Listed)

\* a context of three blocks whose hits differ from rank to rank
C17_Witness ==
    /\ phase = "assembled"
    /\ Len(hits) = 3
    /\ hits[1].metadata # hits[2].metadata
    /\ hits[2].metadata # hits[3].metadata
    /\ Len(ParseBlocks(SplitLines(context), Len(SplitLines(context)))) = 3

\* C18: after a fresh build over n records with any step of the batch loop, the
\* collection holds exactly n entries, the entry at position i (from 0) has the id
\* doc_i with the document text and the metadata of record i, the ids are
\* pairwise distinct, and the contents are those of one add of the whole lists
C18_BatchesAreTransparent ==
    (phase = "built") =>
        /\ Len(entries) = Len(data)
        /\ \A i \in 1..Len(data) :
              /\ entries[i].id = <<"doc_", i - 1>>
              /\ entries[i].document = prepared.documents[i]
              /\ entries[i].metadata = prepared.metadata[i]
        /\ \A i, j \in 1..Len(entries) : i # j => entries[i].id # entries[j].id
        /\ entries = [k \in 1..Len(data) |->
                         [id |-> <<"doc_", k - 1>>, document |-> prepared.documents[k],
                          metadata |-> prepared.metadata[k]]]

\* three records were added in a full batch of two and a last batch of one
C18_Witness ==
    /\ phase = "built"
    /\ Len(data) = 3
    /\ bsize = 2
    /\ bi = 4
    /\ Len(entries) = 3
    /\ data[1] # data[3]

\* the columns of a row that hold a value, in column order
PresentColumns(row) ==
    LET Present(c) == row[c] # <<"nan">>
    IN  SelectSeq(Columns, Present)

RECURSIVE JoinedPairs(_, _, _)
\* "name: value" for the first k of the columns cols of row, joined by ", "
JoinedPairs(row, cols, k) ==
    IF k = 0 THEN <<>>
    ELSE (IF k = 1 THEN <<>> ELSE JoinedPairs(row, cols, k - 1) \o <<",", " ">>) \o
         <<cols[k], ":", " ">> \o row[cols[k]]

\* C19: for every record the document text is exactly the "name: value" pairs of
\* its non-missing attributes in attribute order, joined by ", " with nothing
\* added or removed, and the metadata hold exactly the non-missing attributes
C19_DocumentText ==
    (phase # "prepare") =>
        \A r \in 1..Len(data) :
           LET cols == PresentColumns(data[r])
           IN  /\ prepared.documents[r] = JoinedPairs(data[r], cols, Len(cols))
               /\ prepared.metadata[r] =
                      [k \in 1..Len(cols) |-> [key |-> cols[k], value |-> data[r][cols[k]]]]

\* a POST /ask of worker t has been answered with 200
AskAnswered(t) == pc[t] = "done" /\ req[t] = "ask" /\ resp[t] = "200"

\* C20 as stated: a successful ask returns the generated answer and the context
\* used, the context being the one embedded in the prompt sent to generate
C20_AskReturnsContext ==
    \A t \in Threads :
       AskAnswered(t) =>
          /\ "answer" \in DOMAIN loc[t].body
          /\ "context" \in DOMAIN loc[t].body
          /\ loc[t].body.answer = loc[t].answer
          /\ loc[t].body.context = loc[t].posted.context

\* C20, amended: answer_with_rag returns the generated answer with the context
\* used, which is the context embedded in the prompt that was posted; the
\* response of POST /ask carries that answer and the processing time, and not the
\* context
C20_RagReturnsContext ==
    \A t \in Threads :
       AskAnswered(t) =>
          /\ DOMAIN loc[t].response = {"query", "context", "answer"}
          /\ loc[t].response.context = loc[t].posted.context
          /\ loc[t].response.query = loc[t].posted.query
          /\ loc[t].response.answer = loc[t].answer
          /\ DOMAIN loc[t].body = {"answer", "processing_time"}
          /\ loc[t].body.answer = loc[t].response.answer

\* an ask was answered from a context of three hits over the whole collection
C20_Witness ==
    \E t \in Threads :
       /\ AskAnswered(t)
       /\ loc[t].posted.context = [hits |-> 3, served |-> NumRows]
       /\ loc[t].response.answer \in Answers

\* a GET /health of worker t has been answered
HealthEnded(t) == pc[t] = "done" /\ req[t] = "health"

\* C21: health_check never raises: whatever the state of the components it
\* answers 200 with a status of "ok" or "degraded" and a state for each component,
\* and a client probe that fails or throws is reported as "unhealthy"
C21_HealthNeverRaises ==
    \A t \in Threads :
       HealthEnded(t) =>
          /\ resp[t] = "200"
          /\ exc[t] = "none"
          /\ hs[t].analytics \in {"healthy", "unhealthy"}
          /\ hs[t].vector_store \in {"healthy", "unhealthy"}
          /\ hs[t].llm \in {"healthy", "unhealthy", "not_initialized"}
          /\ hs[t].status =
                IF "unhealthy" \in {hs[t].analytics, hs[t].vector_store, hs[t].llm}
                THEN "degraded" ELSE "ok"
          /\ (loc[t].probe \in {"unsent", "non200", "exception"}) => hs[t].llm = "unhealthy"
          /\ (loc[t].probe = "ok") => hs[t].llm = "healthy"
          /\ (llm_instance = 0) => hs[t].llm = "not_initialized"

\* a health check whose probe of the client threw
C21_Witness ==
    \E t \in Threads :
       /\ HealthEnded(t)
       /\ loc[t].probe = "exception"
       /\ hs[t].llm = "unhealthy"
       /\ hs[t].status = "degraded"

\* worker u is inside create_chroma_collection
InitialisingStore(u) ==
    pc[u] \in {"ccc_list", "ccc_get", "ccc_prepare", "ccc_create", "ccc_add"}

\* worker u is inside load_model
InitialisingClient(u) == pc[u] \in {"gl_load", "lm_check", "lm_probe"}

\* C22: while one caller is inside the initialization of a singleton, a concurrent
\* caller waits or gets the initialized object: get_vector_store has not returned
\* to it a VectorStore whose build has not completed, and get_llm_interface has not
\* returned to it an LLMInterface on which load_model has not completed
C22_WaitOrComplete ==
    \A t, u \in Threads :
       (t # u) =>
          /\ (/\ InitialisingStore(u)
              /\ pc[t] \in {"gl_key", "h_llm"}
              /\ loc[t].vs # 0) => vstores[loc[t].vs].built
          /\ (/\ InitialisingClient(u)
              /\ pc[t] = "rag_retrieve") => llms[loc[t].llm].is_loaded

\* the step appends to the history one item with the query of ask t and the answer
\* that ask returns, the first item this ask appends
AppendsOwnItem(t) ==
    /\ req[t] = "ask"
    /\ loc[t].logged = 0 /\ loc'[t].logged = 1
    /\ loc[t].post = "2xx"
    /\ query_history' = Append(query_history,
                               [query |-> loc[t].query,
                                answer |-> loc[t].response.answer,
                                timestamp |-> clock])

\* the step evicts the oldest items beyond the capacity and nothing else
EvictsOldest(t) ==
    /\ req[t] = "ask"
    /\ loc[t].logged = 1
    /\ query_history' = LastN(query_history, HISTORY_LIMIT)

\* C23: every ask changes the history in one of two ways only: a successful ask
\* appends exactly one item, with its query and the answer returned to the caller
\* (the capacity evicting the oldest), and an ask that fails changes nothing; no
\* other change of the history is made by any ask
C23_OneAppendOrNothing ==
    [][/\ (query_history' # query_history) =>
             \E t \in Threads : AppendsOwnItem(t) \/ EvictsOldest(t)
       /\ \A t \in Threads :
             (req[t] = "ask" /\ pc[t] # "done" /\ pc'[t] = "done") =>
                /\ (resp'[t] = "200") => (loc'[t].logged = 1)
                /\ (resp'[t] = "500") => (loc'[t].logged = 0)]_vars

\* the stages of one ask, in the order of spec section 5
Stages == <<"retrieval", "assembly", "generation", "append">>

IsPrefix(p, q) == Len(p) <= Len(q) /\ \A i \in 1..Len(p) : p[i] = q[i]

\* C24: within one ask, also beside another ask, the stages completed so far are
\* retrieval, assembly, generation, append in this order: the prompt is assembled
\* from the context that ask retrieved, the request posted carries that prompt, and
\* the history entry is appended after the generation has returned its answer
C24_StagesInOrder ==
    \A t \in Threads :
       (req[t] = "ask") =>
          /\ IsPrefix(loc[t].stages, Stages)
          /\ (pc[t] = "rag_prompt") => (loc[t].stages = <<"retrieval">>)
          /\ (Len(loc[t].stages) >= 2) =>
                 loc[t].prompt = [context |-> loc[t].ctx, query |-> loc[t].query]
          /\ (pc[t] = "rag_generate") => (Len(loc[t].stages) = 2)
          /\ (Len(loc[t].stages) >= 3) =>
                 /\ loc[t].posted = loc[t].prompt
                 /\ loc[t].post # "none"
                 /\ loc[t].answer # "none"
          /\ (pc[t] = "log_append") => (Len(loc[t].stages) = 3)
          /\ (loc[t].logged > 0) => (loc[t].stages = Stages)

\* C24 witness: one ask has appended its entry while another ask, running beside
\* it, has retrieved and not yet assembled
C24_Witness ==
    /\ req["w1"] = "ask" /\ loc["w1"].stages = Stages
    /\ req["w2"] = "ask" /\ loc["w2"].stages = <<"retrieval">>
    /\ pc["w1"] = "log_check" /\ pc["w2"] = "rag_prompt"

\* C25: within the process a client that is loaded stays loaded: no step of
\* generate_response, retrieve_relevant_context, answer_with_rag, is_healthy or
\* health_check, failing ones included, sets is_loaded of an LLMInterface back to
\* False
C25_ReadyIsMonotone ==
    [][(restarts' = restarts) =>
          \A i \in 1..Len(llms) :
             llms[i].is_loaded => (i <= Len(llms') /\ llms'[i].is_loaded)]_vars

\* C25 witness: on a loaded client a generation has failed, and a health check
\* beside it has found the client unhealthy
C25_Witness ==
    /\ llm_instance # 0 /\ llms[llm_instance].is_loaded
    /\ \E t, u \in Threads :
          /\ req[t] = "ask" /\ pc[t] = "done"
          /\ exc[t] = "ValueError: API request failed"
          /\ req[u] = "health" /\ pc[u] = "done" /\ hs[u].llm = "unhealthy"

\* C26: a call of create_chroma_collection that finds the name listed and whose
\* get_collection raises creates the collection afresh: it ends by returning a
\* collection that holds one entry per current record
C26_RebuildsAfterAccessError ==
    \A c \in Callers :
        (CccEnded(c) /\ loc[c].ccc0.exists /\ loc[c].geterr) =>
            /\ loc[c].ccc_result = "built"
            /\ vstores[loc[c].self].collection
            /\ chroma = [exists |-> TRUE, count |-> NumRows]

\* the collection holds the documents and metadata prepared by the first build
HoldsFirstBuild ==
    entries = collection_add(<<>>, prepared.documents, prepared.document_ids,
                             prepared.metadata)

\* C27: reuse is decided by the name and the path alone: after the CSV has changed,
\* the second build changes no entry of the collection, the store that attached
\* holds the collection of the first build, and every hit of a later query is an
\* entry of the first build, min(top_k, entries) of them
C27_StaleIndexServed ==
    /\ [](phase \in {"reused", "stale_queried"} => HoldsFirstBuild)
    /\ [](phase = "stale_queried" =>
             /\ Len(hits) = Min(qry.top_k, Len(prepared.documents))
             /\ \A r \in 1..Len(hits) :
                   \E j \in 1..Len(prepared.documents) :
                      /\ hits[r].document = prepared.documents[j]
                      /\ hits[r].metadata = prepared.metadata[j])
    /\ [][phase = "attach" => entries' = entries]_vars

\* C27 witness: the query is the text of a row of the changed CSV that the first
\* CSV did not hold, and it is answered with a record of the first CSV
C27_Witness ==
    /\ phase = "stale_queried"
    /\ \A j \in 1..Len(prepared.documents) : prepared.documents[j] # qry.text
    /\ Len(hits) >= 1
    /\ hits[1].document # qry.text

\* C28: under any interleaving of /ask and /health requests, whenever the global
\* llm_instance is set, its vector_store is the object the global vector_store
\* refers to
C28_SameBackingIndex ==
    (llm_instance # 0) => (llms[llm_instance].vector_store = vector_store)

\* the /analytics request of worker t has been answered
AnalyticsEnded(t) == req[t] = "analytics" /\ pc[t] = "done"

\* C29: an /analytics request whose metric is given and is none of the four
\* supported names is answered 400 once get_analytics has returned, and a 500 is
\* answered only when get_analytics or the computation of the metric failed
C29_InvalidMetricIs400 ==
    \A t \in Threads :
       AnalyticsEnded(t) =>
          /\ (/\ Len(loc[t].metric) = 1
              /\ \A k \in 1..Len(loc[t].metric) : loc[t].metric[k] \notin SupportedMetrics
              /\ loc[t].failed # "get_analytics") => (resp[t] = "400")
          /\ (resp[t] = "500") => (loc[t].failed \in {"get_analytics", "computation"})

=============================================================================
